---- MODULE Spec2Model ----
(***************************************************************************)
(* House Price API (src/api.py) and the pipeline feature alignment         *)
(* (src/src/predict.py) as a state machine.                                *)
(*                                                                         *)
(* The API state is the two tables of the SQLite database (users,          *)
(* predictions), the wall clock read by datetime.utcnow(), and the bearer  *)
(* token the dashboard keeps in its session.  Every HTTP call is one       *)
(* action; it records the request and the response in `resp`.              *)
(* Time is counted in minutes.  Sizes (land_size, building_size) are       *)
(* whole numbers, so float arithmetic is exact.                            *)
(***************************************************************************)
EXTENDS Integers, Sequences, FiniteSets, TLC

VARIABLES
    users,        \* rows of table "users"
    predictions,  \* rows of table "predictions"
    now,          \* datetime.utcnow(), in minutes
    session,      \* st.session_state["token"]: the token the caller keeps
    resp,         \* the last HTTP call: its request and its response
    deleted,      \* history: ids for which DELETE /api/records/{id} succeeded
    created,      \* history: ids of the stored records, oldest predict call first
    nPredicts,    \* history: number of records created so far
    alignIn,      \* _align_payload: its arguments (payload, expected columns)
    frame,        \* _align_payload: the DataFrame it returned
    _model,       \* predict.py: the module-level cache of the loaded pipeline
    fs,           \* the file system: what is at each path
    loadResp,     \* the last load_model call: its argument and its outcome
    regPc,        \* concurrent register: where each request stands
    regReq,       \* concurrent register: the body of each request
    regStatus     \* concurrent register: the status each request returned

vars == <<users, predictions, now, session, resp, deleted, created, nPredicts,
          alignIn, frame, _model, fs, loadResp, regPc, regReq, regStatus>>

apiVars == <<users, predictions, now, session, resp, deleted, created, nPredicts>>
alignVars == <<alignIn, frame>>
loadVars == <<_model, fs, loadResp>>
regVars == <<regPc, regReq, regStatus>>

-----------------------------------------------------------------------------
(* Bounds of the model *)

MaxTime == 90
TickStep == 30
MaxPredicts == 3
MaxCols == 3
AuthMaxPredicts == 1
StoreMaxTime == 30

(* Program constants *)

ACCESS_TOKEN_EXPIRE_MINUTES == 60
SECRET_KEY == "dev-secret-jwt-key"
UsernameMinLen == 3
UsernameMaxLen == 64
PasswordMinLen == 6
PasswordMaxLen == 128
RidMin == 1
BasePrice == 500000
BedroomWeight == 80000
BathroomWeight == 60000
ParkingWeight == 20000
LandWeight == 500
BuildingWeight == 1200

-----------------------------------------------------------------------------
(* Inputs *)

Usernames == {"alice", "bob", "al"}
Passwords == {"secret1", "hunter22", "pw"}
\* the salt pwd_context.hash draws
Salts == {"c2FsdA"}
StoreUsernames == {"alice"}

PredictInFields ==
    {"suburb", "property_type", "bedrooms", "bathrooms", "parking",
     "land_size", "building_size", "postcode", "schools_nearby"}

ExamplePayload ==
    [suburb |-> "Box Hill", property_type |-> "House", bedrooms |-> 3,
     bathrooms |-> 2, parking |-> 1, land_size |-> 450, building_size |-> 120,
     postcode |-> "3128", schools_nearby |-> 0]

NegativePayload ==
    [suburb |-> "Box Hill", property_type |-> "Unit", bedrooms |-> -7,
     bathrooms |-> 0, parking |-> 0, land_size |-> -10, building_size |-> 0,
     postcode |-> "3128", schools_nearby |-> 0]

\* a body without the required field schools_nearby
IncompletePayload ==
    [suburb |-> "Box Hill", property_type |-> "House", bedrooms |-> 3,
     bathrooms |-> 2, parking |-> 1, land_size |-> 450, building_size |-> 120,
     postcode |-> "3128"]

Payloads == {ExamplePayload, NegativePayload, IncompletePayload}

Rids == 0..MaxPredicts

-----------------------------------------------------------------------------
(* Helpers of api.py *)

Max(S) == CHOOSE m \in S : \A x \in S : x <= m

\* SQLite INTEGER PRIMARY KEY (SQLAlchemy renders no AUTOINCREMENT keyword
\* unless sqlite_autoincrement is set): the new rowid is one more than the
\* largest rowid currently in the table.
NextRowid(table) ==
    IF table = {} THEN 1 ELSE Max({r.id : r \in table}) + 1

\* pwd_context.hash: a salted one-way digest
hash_password(pw, salt) == [scheme |-> "pbkdf2_sha256", salt |-> salt, digest |-> <<salt, pw>>]

\* variant: any password verifies against a stored hash
verify_password_any(pw, pw_hash) == pw_hash.scheme = "pbkdf2_sha256"

\* pwd_context.verify: recompute the digest with the stored salt
verify_password(pw, pw_hash) == hash_password(pw, pw_hash.salt) = pw_hash

\* jwt.encode of {"sub": ..., "exp": ...} signed with a key
NoToken == [sub |-> "", exp |-> 0, key |-> ""]

create_access_token(sub, t) ==
    [sub |-> sub, exp |-> t + ACCESS_TOKEN_EXPIRE_MINUTES, key |-> SECRET_KEY]

\* variant: the expiry is not verified
jwt_decode_no_exp(token, t) ==
    IF token.key # SECRET_KEY THEN {}
    ELSE {[sub |-> token.sub, exp |-> token.exp]}

\* variant: the signature is not verified
jwt_decode_no_signature(token, t) ==
    IF token.exp < t THEN {}
    ELSE {[sub |-> token.sub, exp |-> token.exp]}

\* jwt.decode: the claims, or nothing on JWTError (bad signature, expired)
jwt_decode(token, t) ==
    IF token.key # SECRET_KEY THEN {}
    ELSE IF token.exp < t THEN {}
    ELSE {[sub |-> token.sub, exp |-> token.exp]}

\* db.query(User).filter(User.username == username).first()
UserByName(username) ==
    LET rows == {u \in users : u.username = username}
    IN  {u \in rows : \A v \in rows : u.id <= v.id}

\* the user the token resolves to, or nothing (401)
get_current_user(token, t) ==
    IF token = NoToken THEN {}
    ELSE LET payload == jwt_decode(token, t)
         IN  IF payload = {} THEN {}
             ELSE LET username == (CHOOSE p \in payload : TRUE).sub
                  IN  IF username = "" THEN {} ELSE UserByName(username)

\* variant: the lookup before the insert finds nothing
UsernameTakenNever(username) == FALSE

\* variant: the filter matches every id up to rid
RowByIdUpTo(rid) == {p \in predictions : p.id <= rid}

\* register: db.query(User).filter(User.username == data.username).first()
UsernameTaken(username) == UserByName(username) # {}

\* delete_record: db.query(Prediction).filter(Prediction.id == rid).first()
RowById(rid) == {p \in predictions : p.id = rid}

RegisterInValid(username, password) ==
    /\ Len(username) >= UsernameMinLen
    /\ Len(username) <= UsernameMaxLen
    /\ Len(password) >= PasswordMinLen
    /\ Len(password) <= PasswordMaxLen

PredictInValid(payload) == DOMAIN payload = PredictInFields

\* variant: the parking term is left out
calc_price_no_parking(inp) ==
    BasePrice + inp.bedrooms * BedroomWeight + inp.bathrooms * BathroomWeight
              + inp.land_size * LandWeight + inp.building_size * BuildingWeight

calc_price(inp) ==
    LET base0 == BasePrice
        base1 == base0 + inp.bedrooms * BedroomWeight + inp.bathrooms * BathroomWeight
                       + inp.parking * ParkingWeight
        base2 == base1 + inp.land_size * LandWeight + inp.building_size * BuildingWeight
    IN  base2

\* a row of table "predictions"
Prediction(id, price, payload, t) ==
    [id |-> id, suburb |-> payload.suburb, property_type |-> payload.property_type,
     bedrooms |-> payload.bedrooms, bathrooms |-> payload.bathrooms,
     parking |-> payload.parking, land_size |-> payload.land_size,
     building_size |-> payload.building_size, postcode |-> payload.postcode,
     schools_nearby |-> payload.schools_nearby, price |-> price, created_at |-> t]

\* variant: by id ascending
RECURSIVE OrderByIdAsc(_)
OrderByIdAsc(rows) ==
    IF rows = {} THEN <<>>
    ELSE LET low == CHOOSE r \in rows : \A q \in rows : r.id <= q.id
         IN  <<low>> \o OrderByIdAsc(rows \ {low})

\* the rows of a table as a list, by id descending
RECURSIVE OrderByIdDesc(_)
OrderByIdDesc(rows) ==
    IF rows = {} THEN <<>>
    ELSE LET top == CHOOSE r \in rows : \A q \in rows : q.id <= r.id
         IN  <<top>> \o OrderByIdDesc(rows \ {top})

RECURSIVE Without(_, _)
Without(s, x) ==
    IF s = <<>> THEN <<>>
    ELSE IF Head(s) = x THEN Without(Tail(s), x)
    ELSE <<Head(s)>> \o Without(Tail(s), x)

-----------------------------------------------------------------------------
(* Requests and responses *)

NoPayload == [none |-> TRUE]

NoResp ==
    [op |-> "init", status |-> 0, at |-> 0, token |-> NoToken, user |-> "",
     username |-> "", password |-> "", payload |-> NoPayload, rid |-> 0,
     out |-> NoToken, body |-> <<>>]

\* tokens a caller can present besides the one in its session
\* a token signed with another key, one signed without a subject, and one
\* signed for a name that need not be registered
ForgedTokens ==
    {[sub |-> "alice", exp |-> MaxTime + ACCESS_TOKEN_EXPIRE_MINUTES, key |-> "other-key"],
     [sub |-> "", exp |-> MaxTime + ACCESS_TOKEN_EXPIRE_MINUTES, key |-> SECRET_KEY],
     [sub |-> "bob", exp |-> MaxTime + ACCESS_TOKEN_EXPIRE_MINUTES, key |-> SECRET_KEY]}

BadKeyToken ==
    [sub |-> "alice", exp |-> MaxTime + ACCESS_TOKEN_EXPIRE_MINUTES, key |-> "other-key"]

Presentable(forged) == {NoToken, session} \cup forged

Gated(op, token) ==
    [NoResp EXCEPT !.op = op, !.at = now, !.token = token]

Unauthorized(op, token) ==
    [Gated(op, token) EXCEPT !.status = 401]

-----------------------------------------------------------------------------
(* Initial state: empty tables (Base.metadata.create_all), no session *)

InitApi ==
    /\ users = {}
    /\ predictions = {}
    /\ now = 0
    /\ session = NoToken
    /\ resp = NoResp
    /\ deleted = {}
    /\ created = <<>>
    /\ nPredicts = 0

\* predict.py line 7: _model = None; no load_model call made yet
NoModel == [pipeline_from |-> ""]
NoPath == ""
NoLoad == [op |-> "init", path |-> NoPath, ok |-> FALSE, error |-> "", result |-> NoModel,
           touched |-> {}]

\* the three places an artifact can be: the project root, the working
\* directory, and a path a caller names
RootPath == "repo_root/rf_pipeline.pkl"
CwdPath == "cwd/rf_pipeline.pkl"
OtherPath == "models/other.pkl"
Paths == {RootPath, CwdPath, OtherPath}

MaxProcs == 2
Procs == 1..MaxProcs
NoReq == [username |-> "", password |-> ""]

InitLoad ==
    /\ _model = NoModel
    /\ fs = [p \in Paths |-> "absent"]
    /\ loadResp = NoLoad

InitReg ==
    /\ regPc = [p \in Procs |-> "idle"]
    /\ regReq = [p \in Procs |-> NoReq]
    /\ regStatus = [p \in Procs |-> 0]

NoAlign == [payload |-> <<>>, cols |-> <<>>, called |-> FALSE]
NoFrame == [columns |-> <<>>, row |-> <<>>]

Init ==
    /\ InitApi
    /\ alignIn = NoAlign
    /\ frame = NoFrame
    /\ InitLoad
    /\ InitReg

-----------------------------------------------------------------------------
(* Endpoints *)

Tick(limit) ==
    /\ now + TickStep <= limit
    /\ now' = now + TickStep
    /\ UNCHANGED <<users, predictions, session, resp, deleted, created, nPredicts, alignVars, loadVars, regVars>>

register(username, password, salt) ==
    LET req == [NoResp EXCEPT !.op = "register", !.at = now,
                              !.username = username, !.password = password]
    IN
    /\ IF ~RegisterInValid(username, password)
         THEN /\ resp' = [req EXCEPT !.status = 422]
              /\ UNCHANGED users
         ELSE IF UsernameTaken(username)
         THEN /\ resp' = [req EXCEPT !.status = 409]
              /\ UNCHANGED users
         ELSE /\ users' = users \cup
                    {[id |-> NextRowid(users), username |-> username,
                      password_hash |-> hash_password(password, salt)]}
              /\ resp' = [req EXCEPT !.status = 201]
    /\ UNCHANGED <<predictions, now, session, deleted, created, nPredicts, alignVars, loadVars, regVars>>

login(username, password) ==
    LET req == [NoResp EXCEPT !.op = "login", !.at = now,
                              !.username = username, !.password = password]
        user == UserByName(username)
    IN
    /\ IF user = {} \/ \E u \in user : ~verify_password(password, u.password_hash)
         THEN /\ resp' = [req EXCEPT !.status = 401]
              /\ UNCHANGED session
         ELSE LET token == create_access_token((CHOOSE u \in user : TRUE).username, now)
              IN  /\ resp' = [req EXCEPT !.status = 200, !.out = token]
                  /\ session' = token
    /\ UNCHANGED <<users, predictions, now, deleted, created, nPredicts, alignVars, loadVars, regVars>>

read_me(token) ==
    LET user == get_current_user(token, now)
    IN
    /\ IF user = {}
         THEN resp' = Unauthorized("me", token)
         ELSE resp' = [Gated("me", token) EXCEPT
                          !.status = 200, !.user = (CHOOSE u \in user : TRUE).username]
    /\ UNCHANGED <<users, predictions, now, session, deleted, created, nPredicts, alignVars, loadVars, regVars>>

refresh_token(token) ==
    LET user == get_current_user(token, now)
    IN
    /\ IF user = {}
         THEN /\ resp' = Unauthorized("refresh", token)
              /\ UNCHANGED session
         ELSE LET name == (CHOOSE u \in user : TRUE).username
                  fresh == create_access_token(name, now)
              IN  /\ resp' = [Gated("refresh", token) EXCEPT
                                 !.status = 200, !.user = name, !.out = fresh]
                  /\ session' = fresh
    /\ UNCHANGED <<users, predictions, now, deleted, created, nPredicts, alignVars, loadVars, regVars>>

predict(payload, token, cap) ==
    LET user == get_current_user(token, now)
        req == [Gated("predict", token) EXCEPT !.payload = payload]
    IN
    IF user = {}
      THEN /\ resp' = [req EXCEPT !.status = 401]
           /\ UNCHANGED <<users, predictions, now, session, deleted, created, nPredicts, alignVars, loadVars, regVars>>
    ELSE IF ~PredictInValid(payload)
      THEN /\ resp' = [req EXCEPT !.status = 422,
                                  !.user = (CHOOSE u \in user : TRUE).username]
           /\ UNCHANGED <<users, predictions, now, session, deleted, created, nPredicts, alignVars, loadVars, regVars>>
    ELSE LET price == calc_price(payload)
             obj == Prediction(NextRowid(predictions), price, payload, now)
         IN  /\ nPredicts < cap
             /\ predictions' = predictions \cup {obj}
             /\ resp' = [req EXCEPT !.status = 200,
                                    !.user = (CHOOSE u \in user : TRUE).username,
                                    !.body = <<obj>>]
             /\ created' = Append(created, obj.id)
             /\ nPredicts' = nPredicts + 1
             /\ UNCHANGED <<users, now, session, deleted, alignVars, loadVars, regVars>>

list_records(token) ==
    LET user == get_current_user(token, now)
    IN
    /\ IF user = {}
         THEN resp' = Unauthorized("list", token)
         ELSE resp' = [Gated("list", token) EXCEPT
                          !.status = 200, !.user = (CHOOSE u \in user : TRUE).username,
                          !.body = OrderByIdDesc(predictions)]
    /\ UNCHANGED <<users, predictions, now, session, deleted, created, nPredicts, alignVars, loadVars, regVars>>

delete_record(rid, token) ==
    LET user == get_current_user(token, now)
        req == [Gated("delete", token) EXCEPT !.rid = rid]
        row == RowById(rid)
    IN
    IF user = {}
      THEN /\ resp' = [req EXCEPT !.status = 401]
           /\ UNCHANGED <<users, predictions, now, session, deleted, created, nPredicts, alignVars, loadVars, regVars>>
    ELSE IF rid < RidMin
      THEN /\ resp' = [req EXCEPT !.status = 422,
                                  !.user = (CHOOSE u \in user : TRUE).username]
           /\ UNCHANGED <<users, predictions, now, session, deleted, created, nPredicts, alignVars, loadVars, regVars>>
    ELSE IF row = {}
      THEN /\ resp' = [req EXCEPT !.status = 404,
                                  !.user = (CHOOSE u \in user : TRUE).username]
           /\ UNCHANGED <<users, predictions, now, session, deleted, created, nPredicts, alignVars, loadVars, regVars>>
    ELSE /\ predictions' = predictions \ row
         /\ resp' = [req EXCEPT !.status = 200,
                                !.user = (CHOOSE u \in user : TRUE).username]
         /\ deleted' = deleted \cup {rid}
         /\ created' = Without(created, rid)
         /\ UNCHANGED <<users, now, session, nPredicts, alignVars, loadVars, regVars>>

\* the credential store and the token service under many credentials and tokens
NextAuth ==
    \/ Tick(MaxTime)
    \/ \E u \in Usernames, p \in Passwords, s \in Salts : register(u, p, s)
    \/ \E u \in Usernames, p \in Passwords : login(u, p)
    \/ \E t \in Presentable(ForgedTokens) : read_me(t)
    \/ \E t \in Presentable(ForgedTokens) : refresh_token(t)
    \/ \E t \in Presentable(ForgedTokens) : predict(ExamplePayload, t, AuthMaxPredicts)
    \/ \E t \in Presentable(ForgedTokens) : list_records(t)
    \/ \E t \in Presentable(ForgedTokens) : delete_record(1, t)

SpecAuth == Init /\ [][NextAuth]_vars

\* the prediction store under many payloads and record ids
NextStore ==
    \/ Tick(StoreMaxTime)
    \/ \E u \in StoreUsernames, s \in Salts : register(u, "secret1", s)
    \/ \E u \in StoreUsernames : login(u, "secret1")
    \/ \E t \in Presentable({BadKeyToken}) : read_me(t)
    \/ \E t \in Presentable({BadKeyToken}) : refresh_token(t)
    \/ \E pl \in Payloads, t \in Presentable({BadKeyToken}) : predict(pl, t, MaxPredicts)
    \/ \E t \in Presentable({BadKeyToken}) : list_records(t)
    \/ \E r \in Rids, t \in Presentable({BadKeyToken}) : delete_record(r, t)

SpecStore == Init /\ [][NextStore]_vars

-----------------------------------------------------------------------------
(* src/predict.py: feature alignment.  A payload is a dict: its items in   *)
(* insertion order, keys distinct.  The expected columns are the list      *)
(* _expected_feature_names returns; <<>> stands for None (the pipeline     *)
(* declares no names).                                                     *)

\* the items a caller may send, as in tests/test_predict.py, and a
\* land_size_sqm that differs from land_size
PayloadItems ==
    <<<<"bedrooms", 3>>, <<"parking_spaces", 1>>, <<"land_size", 450>>,
      <<"building_size", 120>>, <<"postcode", 3128>>, <<"land_size_sqm", 460>>>>

\* the column names a fitted pipeline may declare
FeatureNames ==
    {"bedrooms", "postcode", "land_size_sqm", "building_size_sqm", "schools_nearby",
     "above_suburb_median", "price_per_land_sqm", "parking"}

RECURSIVE SubSeqs(_)
SubSeqs(s) ==
    IF s = <<>> THEN {<<>>}
    ELSE LET rest == SubSeqs(Tail(s))
         IN  rest \cup {<<Head(s)>> \o r : r \in rest}

PayloadDicts == SubSeqs(PayloadItems)

ColumnLists ==
    {c \in UNION {[1..n -> FeatureNames] : n \in 0..MaxCols} :
        \A i, j \in DOMAIN c : i # j => c[i] # c[j]}

Keys(payload) == {payload[i][1] : i \in DOMAIN payload}

\* payload[key]
Get(payload, key) == (CHOOSE i \in DOMAIN payload : payload[i][1] = key)

Item(payload, key) == payload[Get(payload, key)][2]

\* variant: the *_sqm aliases are not derived
AlignedValueNoAlias(payload, c) ==
    IF c \in Keys(payload) THEN Item(payload, c) ELSE 0

\* the value _align_payload gives expected column c
AlignedValue(payload, c) ==
    IF c \in Keys(payload) THEN Item(payload, c)
    ELSE IF c = "land_size_sqm" /\ "land_size" \in Keys(payload)
      THEN Item(payload, "land_size")
    ELSE IF c = "building_size_sqm" /\ "building_size" \in Keys(payload)
      THEN Item(payload, "building_size")
    ELSE IF c = "schools_nearby"
      THEN (IF "schools_nearby" \in Keys(payload) THEN Item(payload, "schools_nearby") ELSE 0)
    ELSE IF c = "above_suburb_median" THEN 0
    ELSE IF c \in {"price_per_land_sqm", "price_per_building_sqm"} THEN 0
    ELSE 0

\* pd.DataFrame([row], columns=cols), or pd.DataFrame([payload])
_align_payload(payload, cols) ==
    IF cols = <<>>
      THEN [columns |-> [i \in DOMAIN payload |-> payload[i][1]],
            row |-> [k \in Keys(payload) |-> Item(payload, k)]]
      ELSE [columns |-> cols,
            row |-> [c \in {cols[i] : i \in DOMAIN cols} |-> AlignedValue(payload, c)]]

InitAlign ==
    /\ InitApi
    /\ InitLoad
    /\ InitReg
    /\ alignIn \in [payload : PayloadDicts, cols : ColumnLists, called : {FALSE}]
    /\ frame = NoFrame

align_payload ==
    /\ ~alignIn.called
    /\ frame' = _align_payload(alignIn.payload, alignIn.cols)
    /\ alignIn' = [alignIn EXCEPT !.called = TRUE]
    /\ UNCHANGED <<apiVars, loadVars, regVars>>

NextAlign == align_payload

SpecAlign == InitAlign /\ [][NextAlign]_vars

-----------------------------------------------------------------------------
(* src/predict.py: load_model and its module-level cache.  A path holds    *)
(* nothing, a pickled pipeline, or bytes joblib cannot load.               *)

FileStates == {"absent", "pipeline", "garbage"}

\* variant: the working directory is tried before the project root
FindArtifactCwdFirst ==
    IF fs[CwdPath] # "absent" THEN CwdPath
    ELSE IF fs[RootPath] # "absent" THEN RootPath
    ELSE NoPath

\* the for loop over candidates: the first one that exists, or none
FindArtifact ==
    IF fs[RootPath] # "absent" THEN RootPath
    ELSE IF fs[CwdPath] # "absent" THEN CwdPath
    ELSE NoPath

\* the paths p.exists() was asked about
Probed ==
    IF fs[RootPath] # "absent" THEN {RootPath} ELSE {RootPath, CwdPath}

\* joblib.load(path): the pipeline pickled there
joblib_load(path) == [pipeline_from |-> path]

load_model(path) ==
    LET call == [NoLoad EXCEPT !.op = "load", !.path = path]
    IN
    /\ IF _model # NoModel
         THEN /\ loadResp' = [call EXCEPT !.ok = TRUE, !.result = _model]
              /\ UNCHANGED _model
         ELSE LET found == IF path = NoPath THEN FindArtifact ELSE path
                  probed == IF path = NoPath THEN Probed ELSE {}
              IN  IF found = NoPath
                    THEN /\ loadResp' = [call EXCEPT !.error = "FileNotFoundError",
                                                     !.touched = probed]
                         /\ UNCHANGED _model
                  ELSE IF fs[found] = "absent"
                    THEN /\ loadResp' = [call EXCEPT !.error = "FileNotFoundError",
                                                     !.touched = probed \cup {found}]
                         /\ UNCHANGED _model
                  ELSE IF fs[found] = "garbage"
                    THEN /\ loadResp' = [call EXCEPT !.error = "UnpicklingError",
                                                     !.touched = probed \cup {found}]
                         /\ UNCHANGED _model
                  ELSE /\ _model' = joblib_load(found)
                       /\ loadResp' = [call EXCEPT !.ok = TRUE, !.result = joblib_load(found),
                                                   !.touched = probed \cup {found}]
    /\ UNCHANGED <<fs, apiVars, alignVars, regVars>>

\* the environment puts, replaces or removes a file
write_file(path, content) ==
    /\ fs' = [fs EXCEPT ![path] = content]
    /\ UNCHANGED <<_model, loadResp, apiVars, alignVars, regVars>>

NextLoad ==
    \/ \E path \in Paths \cup {NoPath} : load_model(path)
    \/ \E path \in Paths, content \in FileStates : write_file(path, content)

SpecLoad == Init /\ [][NextLoad]_vars

-----------------------------------------------------------------------------
(* src/api.py: POST /auth/register served concurrently.  FastAPI runs the  *)
(* handler of each request in its own worker thread with its own session:  *)
(* the lookup (line 121) and the insert with its commit (lines 124-125)    *)
(* are separate steps on the shared table.                                 *)

\* the request arrives; RegisterIn validates the body
reg_begin(p, username, password) ==
    /\ regPc[p] = "idle"
    /\ regReq' = [regReq EXCEPT ![p] = [username |-> username, password |-> password]]
    /\ IF RegisterInValid(username, password)
         THEN /\ regPc' = [regPc EXCEPT ![p] = "lookup"]
              /\ regStatus' = [regStatus EXCEPT ![p] = 0]
         ELSE /\ regPc' = [regPc EXCEPT ![p] = "done"]
              /\ regStatus' = [regStatus EXCEPT ![p] = 422]
    /\ UNCHANGED <<apiVars, alignVars, loadVars>>

\* if db.query(User).filter(User.username == data.username).first(): raise 409
reg_lookup(p) ==
    /\ regPc[p] = "lookup"
    /\ IF UsernameTaken(regReq[p].username)
         THEN /\ regPc' = [regPc EXCEPT ![p] = "done"]
              /\ regStatus' = [regStatus EXCEPT ![p] = 409]
         ELSE /\ regPc' = [regPc EXCEPT ![p] = "insert"]
              /\ UNCHANGED regStatus
    /\ UNCHANGED <<regReq, apiVars, alignVars, loadVars>>

\* db.add(user); db.commit(): the INSERT fails on the unique index of
\* users.username (IntegrityError, not caught: 500), or the row is stored
reg_commit(p, salt) ==
    /\ regPc[p] = "insert"
    /\ regPc' = [regPc EXCEPT ![p] = "done"]
    /\ IF \E u \in users : u.username = regReq[p].username
         THEN /\ regStatus' = [regStatus EXCEPT ![p] = 500]
              /\ UNCHANGED users
         ELSE /\ users' = users \cup
                    {[id |-> NextRowid(users), username |-> regReq[p].username,
                      password_hash |-> hash_password(regReq[p].password, salt)]}
              /\ regStatus' = [regStatus EXCEPT ![p] = 201]
    /\ UNCHANGED <<regReq, predictions, now, session, resp, deleted, created, nPredicts,
                   alignVars, loadVars>>

\* the response is sent; the worker is free for the next request
reg_return(p) ==
    /\ regPc[p] = "done"
    /\ regPc' = [regPc EXCEPT ![p] = "idle"]
    /\ regReq' = [regReq EXCEPT ![p] = NoReq]
    /\ regStatus' = [regStatus EXCEPT ![p] = 0]
    /\ UNCHANGED <<apiVars, alignVars, loadVars>>

NextRegister ==
    \/ \E p \in Procs, u \in Usernames : reg_begin(p, u, "secret1")
    \/ \E p \in Procs : reg_lookup(p)
    \/ \E p \in Procs, s \in Salts : reg_commit(p, s)
    \/ \E p \in Procs : reg_return(p)

SpecRegister == Init /\ [][NextRegister]_vars

-----------------------------------------------------------------------------
(* Properties *)

GatedOps == {"me", "refresh", "predict", "list", "delete"}

Registered(username) == \E u \in users : u.username = username

\* C1: a register call (a body RegisterIn accepts) for a username already in
\* the credential store returns 409 and leaves the store unchanged; for a
\* username not in the store it returns 201 and adds exactly one user with
\* that username.
C1_RegisterConflictOrCreate ==
    [][ (resp'.op = "register" /\ now' = now
            /\ RegisterInValid(resp'.username, resp'.password)) =>
        IF Registered(resp'.username)
          THEN resp'.status = 409 /\ users' = users
          ELSE /\ resp'.status = 201
               /\ \E row \in users' :
                     /\ row \notin users
                     /\ users' = users \cup {row}
                     /\ row.username = resp'.username ]_vars

\* a second registration of a stored username with another password was
\* refused and the stored hash is still the first one
C1_Witness ==
    /\ resp.op = "register"
    /\ resp.status = 409
    /\ \E u \in users : /\ u.username = resp.username
                        /\ u.password_hash.digest[2] # resp.password

\* C2: login with an absent username or with a password other than the
\* registered one fails with 401 and issues no token; a token is issued only
\* when the username exists and the password matches, and its subject is that
\* username.
C2_LoginOnlyWithPassword ==
    [][ (resp'.op = "login" /\ now' = now) =>
        LET match == \E u \in users :
                        /\ u.username = resp'.username
                        /\ u.password_hash.digest = <<u.password_hash.salt, resp'.password>>
        IN  /\ ~match => /\ resp'.status = 401
                         /\ resp'.out = NoToken
                         /\ session' = session
            /\ resp'.out # NoToken => /\ match
                                      /\ resp'.status = 200
                                      /\ resp'.out.sub = resp'.username ]_vars

\* a wrong password for a registered user was refused after an earlier login
\* had succeeded
C2_Witness ==
    /\ resp.op = "login"
    /\ resp.status = 401
    /\ Registered(resp.username)
    /\ session # NoToken

\* C3: a token issued by login or refresh at time t expires at t + 60
\* minutes; presented to a gated endpoint before its expiry it resolves to its
\* user, and after its expiry it is rejected with 401.
C3_TokenLifetime ==
    [][ /\ (resp'.op \in {"login", "refresh"} /\ now' = now /\ resp'.status = 200) =>
              /\ resp'.out = [sub |-> (IF resp'.op = "login" THEN resp'.username
                                                            ELSE resp'.user),
                              exp |-> now + 60, key |-> SECRET_KEY]
              /\ session' = resp'.out
        /\ (resp'.op \in GatedOps /\ now' = now /\ session # NoToken
               /\ resp'.token = session) =>
              /\ now < session.exp => (resp'.status # 401 /\ resp'.user = session.sub)
              /\ now > session.exp => resp'.status = 401 ]_vars

\* the token of the session was presented after its expiry and rejected
C3_Witness ==
    /\ resp.op \in GatedOps
    /\ resp.status = 401
    /\ session # NoToken
    /\ resp.token = session
    /\ resp.at > session.exp

\* C4: once DELETE /api/records/{id} has succeeded for an id, no later
\* GET /api/records returns a record with that id.
C4_DeletedIdNeverListed ==
    (resp.op = "list" /\ resp.status = 200) =>
        \A i \in DOMAIN resp.body : resp.body[i].id \notin deleted

HasNegative(payload) ==
    \/ payload.bedrooms < 0
    \/ payload.bathrooms < 0
    \/ payload.parking < 0
    \/ payload.land_size < 0
    \/ payload.building_size < 0

SameInputs(r, payload) ==
    \A f \in PredictInFields : r[f] = payload[f]

\* C5: every accepted predict call returns and stores a non-negative price,
\* equal to the price of every stored record with the same inputs; a payload
\* with a negative count or size is rejected.
C5_PriceNonNegative ==
    (resp.op = "predict" /\ resp.user # "" /\ PredictInValid(resp.payload)) =>
        /\ HasNegative(resp.payload) => resp.status # 200
        /\ resp.status = 200 =>
              /\ resp.body[1].price >= 0
              /\ \A r \in predictions :
                    SameInputs(r, resp.payload) => r.price = resp.body[1].price

PriceOf(r) ==
    500000 + 80000 * r.bedrooms + 60000 * r.bathrooms + 20000 * r.parking
           + 500 * r.land_size + 1200 * r.building_size

C6_StoredPrices ==
    \A r \in predictions :
        /\ r.price = PriceOf(r)
        /\ (r.bedrooms = 3 /\ r.bathrooms = 2 /\ r.parking = 1
               /\ r.land_size = 450 /\ r.building_size = 120) => r.price = 1249000

\* C6: every stored record's price is the linear formula of its own fields
\* (3, 2, 1, 450, 120 gives 1249000), and no operation changes a field of a
\* record that stays in the store.
C6_PriceFixedAtCreation ==
    /\ []C6_StoredPrices
    /\ [][ \A r \in predictions :
              (\E q \in predictions' : q.id = r.id) => r \in predictions' ]_vars

\* the example record is stored next to another one, after a delete
C6_Witness ==
    /\ \E r \in predictions : SameInputs(r, ExamplePayload) /\ r.price = 1249000
    /\ Cardinality(predictions) >= 2
    /\ deleted # {}

\* C7: GET /api/records returns exactly the stored records, each once, the
\* one created by the later predict call first.
C7_ListNewestFirst ==
    (resp.op = "list" /\ resp.status = 200) =>
        LET b == resp.body
        IN  /\ {b[i] : i \in DOMAIN b} = predictions
            /\ Len(b) = Cardinality(predictions)
            /\ Len(b) = Len(created)
            /\ \A i \in DOMAIN b : b[i].id = created[Len(created) + 1 - i]

\* a list of two records, one of them under an id that was deleted before
C7_Witness ==
    /\ resp.op = "list"
    /\ resp.status = 200
    /\ Len(resp.body) >= 2
    /\ \E i \in DOMAIN resp.body : resp.body[i].id \in deleted

\* one of the ways get_current_user rejects a token
BadToken(token, t) ==
    \/ token.key # SECRET_KEY
    \/ token.exp < t
    \/ token.sub = ""
    \/ ~Registered(token.sub)

\* C8: a call to a gated endpoint with a token that has a bad signature, is
\* expired, has no subject or names no registered user fails with 401, leaves
\* the stored records unchanged and issues no token.
C8_RejectedBeforeStore ==
    [][ (resp'.op \in GatedOps /\ now' = now /\ BadToken(resp'.token, now)) =>
        /\ resp'.status = 401
        /\ predictions' = predictions
        /\ users' = users
        /\ resp'.out = NoToken
        /\ session' = session ]_vars

\* a correctly signed token for a name that is not registered was refused a
\* delete of a stored record
C8_Witness ==
    /\ resp.op = "delete"
    /\ resp.status = 401
    /\ resp.token.key = SECRET_KEY
    /\ resp.token.sub # ""
    /\ ~Registered(resp.token.sub)
    /\ \E p \in predictions : p.id = resp.rid

\* C9: an authenticated delete of a stored id (an id the path accepts, 1 or
\* more) removes exactly that record and leaves the others unchanged; of an id
\* not stored it fails with 404 and leaves the store unchanged.
C9_DeleteExactlyOne ==
    [][ (resp'.op = "delete" /\ now' = now /\ resp'.status # 401 /\ resp'.rid >= 1) =>
        IF \E p \in predictions : p.id = resp'.rid
          THEN /\ resp'.status = 200
               /\ Cardinality(predictions') = Cardinality(predictions) - 1
               /\ \A p \in predictions' : p \in predictions /\ p.id # resp'.rid
               /\ \A p \in predictions : p.id # resp'.rid => p \in predictions'
          ELSE /\ resp'.status = 404
               /\ predictions' = predictions ]_vars

\* a second delete of the same id found nothing, other records still stored
C9_Witness ==
    /\ resp.op = "delete"
    /\ resp.status = 404
    /\ resp.rid \in deleted
    /\ predictions # {}

\* C10: for every payload and every declared list of expected columns the
\* row has exactly the expected columns in order; a column the payload has
\* carries the payload's value, land_size_sqm / building_size_sqm carry
\* land_size / building_size when supplied, every other column carries zero.
C10_AlignedRow ==
    (alignIn.called /\ alignIn.cols # <<>>) =>
        LET payload == alignIn.payload
            cols == alignIn.cols
            has(k) == \E i \in DOMAIN payload : payload[i][1] = k
            is(k, v) == \E i \in DOMAIN payload : payload[i][1] = k /\ payload[i][2] = v
        IN  /\ frame.columns = cols
            /\ DOMAIN frame.row = {cols[i] : i \in DOMAIN cols}
            /\ \A i \in DOMAIN cols :
                  LET c == cols[i]
                  IN  IF has(c) THEN is(c, frame.row[c])
                      ELSE IF c = "land_size_sqm" /\ has("land_size")
                        THEN is("land_size", frame.row[c])
                      ELSE IF c = "building_size_sqm" /\ has("building_size")
                        THEN is("building_size", frame.row[c])
                      ELSE frame.row[c] = 0

\* the test payload's shape: parking_spaces sent, schools_nearby not, and
\* land_size_sqm taken from land_size
C10_Witness ==
    /\ alignIn.called
    /\ "parking_spaces" \in Keys(alignIn.payload)
    /\ "land_size" \in Keys(alignIn.payload)
    /\ "land_size_sqm" \notin Keys(alignIn.payload)
    /\ frame.columns = <<"bedrooms", "land_size_sqm", "schools_nearby">>
    /\ frame.row["land_size_sqm"] = 450
    /\ frame.row["schools_nearby"] = 0

\* a load_model call: the file system is as before and the call is recorded
LoadStep == loadResp'.op = "load" /\ fs' = fs

\* the cache, once filled, is what every later call returns, and no later
\* call looks at the file system
CachedForGood ==
    /\ _model # NoModel => _model' = _model
    /\ (LoadStep /\ _model # NoModel) =>
          /\ loadResp'.ok
          /\ loadResp'.result = _model
          /\ loadResp'.touched = {}

\* C11 as stated: the first successful call picks the artifact in the project
\* root if it exists there, otherwise the one in the working directory,
\* whatever its path argument; with the artifact in neither place the call
\* fails not-found and the cache stays empty; later calls return the cache
\* without touching the file system.
C11_FirstCallSearchesRootThenCwd ==
    [][ /\ CachedForGood
        /\ (LoadStep /\ _model = NoModel) =>
              /\ loadResp'.ok =>
                    /\ _model' = [pipeline_from |->
                                     IF fs[RootPath] # "absent" THEN RootPath ELSE CwdPath]
                    /\ loadResp'.result = _model'
              /\ ~loadResp'.ok => _model' = NoModel
              /\ (fs[RootPath] = "absent" /\ fs[CwdPath] = "absent") =>
                    /\ ~loadResp'.ok
                    /\ loadResp'.error = "FileNotFoundError" ]_vars

\* C11 (amended): the model is loaded at most once: the first successful
\* call, made without a path, picks the artifact in the project root if it
\* exists there, otherwise the one in the working directory; made with a path
\* it loads the file at that path.  Later calls, with any path, return the
\* cached model without touching the file system.  A call without a path that
\* finds the artifact in neither place, or a call with a path that holds no
\* file, fails not-found; after a failed call the cache is still empty.
C11_LoadOnce ==
    [][ /\ CachedForGood
        /\ (LoadStep /\ _model = NoModel) =>
              LET path == loadResp'.path
                  target == IF path # NoPath THEN path
                            ELSE IF fs[RootPath] # "absent" THEN RootPath ELSE CwdPath
              IN  /\ loadResp'.ok =>
                        /\ fs[target] = "pipeline"
                        /\ _model' = [pipeline_from |-> target]
                        /\ loadResp'.result = _model'
                  /\ ~loadResp'.ok => _model' = NoModel
                  /\ fs[target] = "absent" =>
                        /\ ~loadResp'.ok
                        /\ loadResp'.error = "FileNotFoundError" ]_vars

\* a later call that names another path got the pipeline cached from the
\* project root, and looked at no file
C11_Witness ==
    /\ loadResp.op = "load"
    /\ loadResp.ok
    /\ loadResp.path = OtherPath
    /\ loadResp.touched = {}
    /\ loadResp.result = [pipeline_from |-> RootPath]
    /\ _model = [pipeline_from |-> RootPath]
    /\ fs[RootPath] = "absent"

\* C12: under any interleaving of concurrent register calls the credential
\* store never holds two users with the same username, and of the calls for
\* one username at most one returns 201 while every other returns 409.
C12_ConcurrentRegister ==
    /\ \A a, b \in users : a.username = b.username => a = b
    /\ \A p \in Procs :
          (regPc[p] = "done" /\ RegisterInValid(regReq[p].username, regReq[p].password)) =>
              regStatus[p] \in {201, 409}
    /\ \A p, q \in Procs :
          (p # q /\ regPc[p] = "done" /\ regPc[q] = "done"
               /\ regReq[p].username = regReq[q].username) =>
              ~(regStatus[p] = 201 /\ regStatus[q] = 201)

====
